---- MODULE Spec2Model ----
(***************************************************************************)
(* A model of hadoop-galaxy: the tool-wrapping adapter                     *)
(* (hadoop_galaxy/__init__.py) and the pathset builder                     *)
(* (hadoop_galaxy/make_pathset.py).                                        *)
(*                                                                         *)
(* Strings are sequences of atoms.  An atom is one of the separator        *)
(* characters the code looks at ("/", ":", " ") or a run of letters that   *)
(* the code never looks inside ("file", "hdfs", "a", "hadoop_output").     *)
(* The empty sequence is the empty string; None and "" are both falsy in   *)
(* every test the code makes on an optional string, so an optional string  *)
(* that was not given is the empty sequence too.                           *)
(***************************************************************************)
EXTENDS Integers, Sequences, FiniteSets, TLC

VARIABLES
    \* gen_data_output_path: its inputs and its return value
    opt_output_data_dir, env_data_dir, opt_output, arg_name, gen_ret,
    \* HadoopToolRunner: its fields
    executable, input_params, output_str, generic_opts,
    \* the last method called on the runner, its argument and its outcome
    call, ret,
    \* make_pathset: the Uri last built (or the error raised instead), the
    \* function called, and what expand_paths returned
    cur, u_call, u_out,
    \* make_pathset.main: where the process is, its options, the Uris resolved
    \* and the expansions made so far, the output file now and at the start,
    \* the exit status, and what the environment check and the listings
    \* answered
    mk_pc, mk_mode, mk_paths, mk_uris, mk_results, mk_file, mk_file0, mk_exit,
    mk_env, mk_ls_failed,
    \* HadoopGalaxy: os.environ, options.conf, options.remaining_args, the
    \* configuration files, self.conf, self._cmd_env, and how
    \* _configure_for_job ended
    os_environ, opt_conf, opt_remaining_args, conf_files, conf, cmd_env, conf_ret,
    \* HadoopGalaxy.run: where it is and the step that failed; the file
    \* options.input names, the two pathsets and the command built; the file
    \* options.output names, now and at the start; the object at the output
    \* data path and its parent directory; the default file system; the
    \* file-system and process calls execute has made, and what the removal
    \* answered
    run_pc, run_failed_at, input_file, input_pathset, output_pathset, cmd,
    out_file, out_file0, data_out, parent_dir, fs_default, exec_events,
    rmr_outcome

varsPath == <<opt_output_data_dir, env_data_dir, opt_output, arg_name, gen_ret>>

varsRunner == <<executable, input_params, output_str, generic_opts>>

varsCall == <<call, ret>>

varsUri == <<cur, u_call, u_out>>

varsMk == <<mk_pc, mk_mode, mk_paths, mk_uris, mk_results, mk_file, mk_file0,
            mk_exit, mk_env, mk_ls_failed>>

varsConf == <<os_environ, opt_conf, opt_remaining_args, conf_files, conf,
              cmd_env, conf_ret>>

varsRun == <<run_pc, run_failed_at, input_file, input_pathset, output_pathset,
             cmd, out_file, out_file0, data_out, parent_dir, fs_default,
             exec_events, rmr_outcome>>

vars == <<varsPath, varsRunner, varsCall, varsUri, varsMk, varsConf, varsRun>>

\* None, where the code holds a string, and where it holds a list of strings
None == <<"None">>

NoneList == << <<"None">> >>

----------------------------------------------------------------------------
(* The outcome of a call, and the state of each part of the program before *)
(* it is used.                                                             *)

Ok(v) == [kind |-> "ok", val |-> v]

Raise(e) == [kind |-> e, val |-> <<>>]

NoCall == [op |-> "none", arg |-> <<>>]

IdleRunner ==
    /\ executable = None
    /\ input_params = NoneList
    /\ output_str = None
    /\ generic_opts = <<>>
    /\ call = NoCall
    /\ ret = Ok(<<>>)

FileScheme == <<"file">>

MkUri(scheme, netloc, path) == [scheme |-> scheme, netloc |-> netloc, path |-> path]

NoUri == MkUri(<<"-">>, <<"-">>, <<"-">>)

OkUri(u) == [kind |-> "ok", uri |-> u]

RaiseUri(e) == [kind |-> e, uri |-> NoUri]

OkList(urls, uris) == [kind |-> "ok", urls |-> urls, uris |-> uris]

RaiseList(e) == [kind |-> e, urls |-> <<>>, uris |-> <<>>]

\* what the listing command answers: a failure (CalledProcessError), or its
\* standard output
LsFailed == <<"!", "ls", "failed">>

UriCall(op, mode, datapath, args, exists, ls) ==
    [op |-> op, mode |-> mode, datapath |-> datapath, args |-> args,
     exists |-> exists, ls |-> ls]

NoUriCall == UriCall("none", "none", <<>>, NoUri, FALSE, <<>>)

IdleUri ==
    /\ cur = RaiseUri("none")
    /\ u_call = NoUriCall
    /\ u_out = RaiseList("none")

\* a file: absent, or holding the lines of a pathset
File(state, content) == [state |-> state, content |-> content]

IdleMk ==
    /\ mk_pc = "idle"
    /\ mk_mode = "default"
    /\ mk_paths = <<>>
    /\ mk_uris = <<>>
    /\ mk_results = <<>>
    /\ mk_file = File("absent", <<>>)
    /\ mk_file0 = File("absent", <<>>)
    /\ mk_exit = -1
    /\ mk_env = "untested"
    /\ mk_ls_failed = FALSE

\* a dict of environment variables: each key has a value or is Absent
Absent == "absent"

EnvKeys == { "HADOOP_HOME", "HADOOP_CONF_DIR", "HADOOP_GALAXY_CONF", "PATH",
             "JAVA_HOME" }

EmptyDict == [k \in EnvKeys |-> Absent]

\* a configuration dict: its HADOOP_HOME and HADOOP_CONF_DIR keys and its
\* tool_env dict (no tool_env key and an empty tool_env are both falsy)
Conf(home, conf_dir, tool_env) ==
    [HADOOP_HOME |-> home, HADOOP_CONF_DIR |-> conf_dir, tool_env |-> tool_env]

\* dict(): HadoopGalaxy.__init__
EmptyConf == Conf(Absent, Absent, EmptyDict)

\* self.conf when the document loaded is not a mapping
NoneConf == Conf("None", "None", EmptyDict)

\* what reading a configuration file gives
FileContent(read, dict) == [read |-> read, dict |-> dict]

ConfPaths == { "f", "g" }

IdleConf ==
    /\ os_environ = EmptyDict
    /\ opt_conf = ""
    /\ opt_remaining_args = <<>>
    /\ conf_files = [p \in ConfPaths |-> FileContent("IOError", EmptyConf)]
    /\ conf = EmptyConf
    /\ cmd_env = EmptyDict
    /\ conf_ret = "none"

IdleRun ==
    /\ run_pc = "idle"
    /\ run_failed_at = "none"
    /\ input_file = FileContent("IOError", <<>>)
    /\ input_pathset = <<>>
    /\ output_pathset = <<>>
    /\ cmd = <<>>
    /\ out_file = File("absent", <<>>)
    /\ out_file0 = File("absent", <<>>)
    /\ data_out = "absent"
    /\ parent_dir = "absent"
    /\ fs_default = <<>>
    /\ exec_events = <<>>
    /\ rmr_outcome = "none"

IdlePath ==
    /\ opt_output_data_dir = <<>>
    /\ env_data_dir = <<>>
    /\ opt_output = <<>>
    /\ arg_name = <<>>
    /\ gen_ret = None

----------------------------------------------------------------------------
(* String helpers: str.startswith, str.endswith, str.rfind, slicing.       *)

StartsWithSlash(s) == Len(s) > 0 /\ s[1] = "/"

EndsWithSlash(s) == Len(s) > 0 /\ s[Len(s)] = "/"

\* s.rfind(c) + 1: the 1-based place of the last c in s, 0 when there is none
RFind(s, c) ==
    LET hits == {i \in 1..Len(s) : s[i] = c}
    IN IF hits = {} THEN 0 ELSE CHOOSE i \in hits : \A j \in hits : j <= i

AllSlashes(s) == \A i \in 1..Len(s) : s[i] = "/"

RECURSIVE RStripSlash(_)
RStripSlash(s) ==
    IF EndsWithSlash(s) THEN RStripSlash(SubSeq(s, 1, Len(s) - 1)) ELSE s

----------------------------------------------------------------------------
(* posixpath, as the adapter uses it.                                      *)

\* os.path.join(a, b)
PathJoin(a, b) ==
    IF StartsWithSlash(b) THEN b
    ELSE IF a = <<>> \/ EndsWithSlash(a) THEN a \o b
    ELSE a \o <<"/">> \o b

\* os.path.dirname(p)
PathDirname(p) ==
    LET head == SubSeq(p, 1, RFind(p, "/"))
    IN IF head # <<>> /\ ~AllSlashes(head) THEN RStripSlash(head) ELSE head

\* os.path.basename(p)
PathBasename(p) == SubSeq(p, RFind(p, "/") + 1, Len(p))

----------------------------------------------------------------------------
(* Pathset (hadoop_galaxy/pathset.py): an ordered collection of path       *)
(* strings.                                                                *)

PathsetLen(pset) == Len(pset)

\* iter(pset).next()
PathsetFirst(pset) == pset[1]

PathsetGetPaths(pset) == pset

\* hadoop_galaxy.utils.get_abs_executable_path(executable, env): an absolute
\* name is used as it is; another name is looked up in the directories of
\* env's PATH; NotFound stands for the error raised when no directory has it.
NotFound == <<"!", "not", "found">>

Installed == { <<"/", "bin", "/", "tool">> }

get_abs_executable_path(exe, path_dirs) ==
    IF StartsWithSlash(exe) THEN exe
    ELSE LET hits == {i \in 1..Len(path_dirs) :
                        PathJoin(path_dirs[i], exe) \in Installed}
         IN IF hits = {} THEN NotFound
            ELSE PathJoin(path_dirs[CHOOSE i \in hits : \A j \in hits : i <= j], exe)

----------------------------------------------------------------------------
(* urlparse.urlparse, os.path.normpath and os.path.abspath, as             *)
(* make_pathset uses them.  No string of the model holds "?", "#", ";",    *)
(* "." or a digit, so the query, fragment, parameter, dot-segment and      *)
(* port-number rules of these functions never apply.                       *)

\* the atoms that are not a run of scheme characters
Separators == { "/", ":", " ", "*", "\n" }

\* s.find(c) + 1: the 1-based place of the first c in s, 0 when there is none
Find(s, c) ==
    LET hits == {i \in 1..Len(s) : s[i] = c}
    IN IF hits = {} THEN 0 ELSE CHOOSE i \in hits : \A j \in hits : i <= j

urlparse(url) ==
    LET i == Find(url, ":")
        hasScheme == i > 1 /\ \A j \in 1..(i - 1) : url[j] \notin Separators
        scheme == IF hasScheme THEN SubSeq(url, 1, i - 1) ELSE <<>>
        rest == IF hasScheme THEN SubSeq(url, i + 1, Len(url)) ELSE url
        hasNetloc == Len(rest) >= 2 /\ rest[1] = "/" /\ rest[2] = "/"
        after == SubSeq(rest, 3, Len(rest))
        k == Find(after, "/")
    IN [ scheme |-> scheme,
         netloc |-> IF ~hasNetloc THEN <<>>
                    ELSE IF k = 0 THEN after ELSE SubSeq(after, 1, k - 1),
         path |-> IF ~hasNetloc THEN rest
                  ELSE IF k = 0 THEN <<>> ELSE SubSeq(after, k, Len(after)) ]

RECURSIVE CollapseSlashes(_)
CollapseSlashes(s) ==
    IF Len(s) < 2 THEN s
    ELSE IF s[1] = "/" /\ s[2] = "/" THEN CollapseSlashes(Tail(s))
    ELSE <<s[1]>> \o CollapseSlashes(Tail(s))

\* os.path.normpath(p)
normpath(p) ==
    LET initial == IF ~StartsWithSlash(p) THEN <<>>
                   ELSE IF Len(p) >= 2 /\ p[2] = "/" /\ ~(Len(p) >= 3 /\ p[3] = "/")
                        THEN <<"/", "/">>
                   ELSE <<"/">>
        body == RStripSlash(CollapseSlashes(p))
        comps == IF StartsWithSlash(body) THEN Tail(body) ELSE body
    IN IF initial \o comps = <<>> THEN <<".">> ELSE initial \o comps

\* os.getcwd()
Cwd == <<"/", "cwd">>

\* os.path.abspath(p)
abspath(p) == normpath(IF StartsWithSlash(p) THEN p ELSE PathJoin(Cwd, p))

\* pydoop.hdfs.path.abspath(p): the full URI of p on the default file system,
\* whose prefix default_fs is ("hdfs://nn" or "file:")
HdfsHome == <<"/", "user">>

hdfs_abspath(p, default_fs) ==
    default_fs \o (IF StartsWithSlash(p) THEN p ELSE PathJoin(HdfsHome, p))

----------------------------------------------------------------------------
(* make_pathset.Uri                                                        *)

\* Uri.__init__ on three fields (or on an object that has the three)
Uri(scheme, netloc, path) ==
    IF scheme = FileScheme /\ netloc # <<>> THEN RaiseUri("ValueError")
    ELSE IF scheme = FileScheme /\ path # <<>> /\ ~StartsWithSlash(path)
         THEN RaiseUri("ValueError")
    ELSE IF netloc # <<>> /\ scheme = <<>> THEN RaiseUri("ValueError")
    ELSE OkUri(MkUri(scheme, netloc, path))

UriOfParsed(parsed) == Uri(parsed.scheme, parsed.netloc, parsed.path)

\* Uri.geturl
geturl(u) ==
    IF u.scheme # <<>> THEN u.scheme \o <<":", "/", "/">> \o u.netloc \o u.path
    ELSE u.path

----------------------------------------------------------------------------
(* make_pathset.resolve_datapath                                           *)

resolve_datapath(mode, datapath, default_fs) ==
    LET first == UriOfParsed(urlparse(datapath))
    IN IF first.kind # "ok" THEN first
       ELSE IF first.uri.path = <<>> THEN RaiseUri("RuntimeError")
       ELSE IF mode = "default" /\ first.uri.scheme = <<>>
            THEN UriOfParsed(urlparse(hdfs_abspath(first.uri.path, default_fs)))
       ELSE IF mode = "local"
            THEN IF first.uri.scheme # <<>> /\ first.uri.scheme # FileScheme
                 THEN RaiseUri("RuntimeError")
                 ELSE OkUri(MkUri(FileScheme, <<>>, abspath(datapath)))
       ELSE first

----------------------------------------------------------------------------
(* make_pathset.expand_paths                                               *)

\* text.rstrip('\n')
RECURSIVE RStripNewline(_)
RStripNewline(t) ==
    IF Len(t) > 0 /\ t[Len(t)] = "\n" THEN RStripNewline(SubSeq(t, 1, Len(t) - 1))
    ELSE t

\* text.split('\n')
RECURSIVE SplitLines(_)
SplitLines(t) ==
    LET i == Find(t, "\n")
    IN IF i = 0 THEN <<t>>
       ELSE <<SubSeq(t, 1, i - 1)>> \o SplitLines(SubSeq(t, i + 1, Len(t)))

\* the Uri that process(ls_line) builds, after its scheme and netloc are
\* reassigned; ValueError when the line has no blank or the token is refused
\* by Uri.__init__
process_uri(ls_line, datapath_uri) ==
    IF RFind(ls_line, " ") = 0 THEN RaiseUri("ValueError")
    ELSE LET path == SubSeq(ls_line, RFind(ls_line, " ") + 1, Len(ls_line))
             url == UriOfParsed(urlparse(path))
         IN IF url.kind # "ok" THEN url
            ELSE OkUri(MkUri(datapath_uri.scheme, datapath_uri.netloc, url.uri.path))

\* map(process, ls_output)
MapProcess(ls_output, datapath_uri) ==
    LET each == [i \in 1..Len(ls_output) |-> process_uri(ls_output[i], datapath_uri)]
    IN IF \E i \in 1..Len(ls_output) : each[i].kind # "ok" THEN RaiseList("ValueError")
       ELSE OkList([i \in 1..Len(ls_output) |-> geturl(each[i].uri)],
                   [i \in 1..Len(ls_output) |-> each[i].uri])

\* expand_paths(datapath_uri), given what phdfs.path.exists and the listing
\* command answer
expand_paths(datapath_uri, exists, ls) ==
    IF exists THEN OkList(<<geturl(datapath_uri)>>, <<datapath_uri>>)
    ELSE IF ls = LsFailed THEN RaiseList("SystemExit1")
    ELSE MapProcess(Tail(SplitLines(RStripNewline(ls))), datapath_uri)

----------------------------------------------------------------------------
(* HadoopToolRunner                                                        *)

set_input(pset) ==
    /\ input_params' = PathsetGetPaths(pset)
    /\ call' = [op |-> "set_input", arg |-> pset]
    /\ ret' = Ok(<<>>)
    /\ UNCHANGED <<executable, output_str, generic_opts>>

\* a mutant: the cardinality test only rejects the empty pathset
set_output_AtLeastOne(pset) ==
    /\ call' = [op |-> "set_output", arg |-> pset]
    /\ IF PathsetLen(pset) < 1
       THEN /\ ret' = Raise("RuntimeError")
            /\ UNCHANGED output_str
       ELSE /\ output_str' = PathsetFirst(pset)
            /\ ret' = Ok(<<>>)
    /\ UNCHANGED <<executable, input_params, generic_opts>>

set_output(pset) ==
    /\ call' = [op |-> "set_output", arg |-> pset]
    /\ IF PathsetLen(pset) # 1
       THEN /\ ret' = Raise("RuntimeError")
            /\ UNCHANGED output_str
       ELSE /\ output_str' = PathsetFirst(pset)
            /\ ret' = Ok(<<>>)
    /\ UNCHANGED <<executable, input_params, generic_opts>>

parse_args(args_list) ==
    /\ generic_opts' = args_list
    /\ call' = [op |-> "parse_args", arg |-> args_list]
    /\ ret' = Ok(<<>>)
    /\ UNCHANGED <<executable, input_params, output_str>>

\* a mutant: the options are placed after the input paths
command_OptsAfterInputs(exe, inputs, output, opts, path_dirs) ==
    IF exe = None \/ inputs = NoneList \/ output = None THEN Raise("RuntimeError")
    ELSE LET full_path == get_abs_executable_path(exe, path_dirs)
         IN IF full_path = NotFound THEN Raise("ExecutableNotFound")
            ELSE Ok(<<full_path>> \o inputs \o opts \o <<output>>)

\* HadoopToolRunner.command(env) on a runner with the given fields; path_dirs
\* are the directories of PATH in (env or os.environ)
command(exe, inputs, output, opts, path_dirs) ==
    IF exe = None \/ inputs = NoneList \/ output = None THEN Raise("RuntimeError")
    ELSE LET full_path == get_abs_executable_path(exe, path_dirs)
         IN IF full_path = NotFound THEN Raise("ExecutableNotFound")
            ELSE Ok(<<full_path>> \o opts \o inputs \o <<output>>)

Command(path_dirs) ==
    /\ call' = [op |-> "command", arg |-> path_dirs]
    /\ ret' = command(executable, input_params, output_str, generic_opts, path_dirs)
    /\ UNCHANGED varsRunner

\* The values the runner's inputs are drawn from.
MaxPaths == 2
MaxOpts == 2

RECURSIVE SeqsUpTo(_, _)
SeqsUpTo(S, n) ==
    IF n = 0 THEN { <<>> }
    ELSE LET shorter == SeqsUpTo(S, n - 1)
         IN shorter \cup { Append(s, x) : s \in {t \in shorter : Len(t) = n - 1}, x \in S }

Executables == { None, <<"tool">>, <<"/", "opt", "/", "tool">> }
RunnerPaths == { <<"/", "a">>, <<"/", "w", "*">> }
Pathsets == SeqsUpTo(RunnerPaths, MaxPaths)
OptTokens == { <<"-x">>, <<"-y">> }
OptLists == SeqsUpTo(OptTokens, MaxOpts)
PathEnvs == { <<>>, << <<"/", "bin">> >>, << <<"/", "usr">>, <<"/", "bin">> >> }

InitRunner ==
    /\ IdlePath
    /\ IdleUri
    /\ IdleMk
    /\ IdleRun
    /\ IdleConf
    /\ executable \in Executables
    /\ input_params = NoneList
    /\ output_str = None
    /\ generic_opts = <<>>
    /\ call = NoCall
    /\ ret = Ok(<<>>)

SetInput ==
    /\ \E pset \in Pathsets : set_input(pset)
    /\ UNCHANGED <<varsPath, varsUri, varsMk, varsConf, varsRun>>

SetOutput ==
    /\ \E pset \in Pathsets : set_output(pset)
    /\ UNCHANGED <<varsPath, varsUri, varsMk, varsConf, varsRun>>

ParseArgs ==
    /\ \E args_list \in OptLists : parse_args(args_list)
    /\ UNCHANGED <<varsPath, varsUri, varsMk, varsConf, varsRun>>

BuildCommand ==
    /\ \E path_dirs \in PathEnvs : Command(path_dirs)
    /\ UNCHANGED <<varsPath, varsUri, varsMk, varsConf, varsRun>>

NextRunner == SetInput \/ SetOutput \/ ParseArgs \/ BuildCommand

SpecRunner == InitRunner /\ [][NextRunner]_vars

----------------------------------------------------------------------------
(* HadoopGalaxy.gen_data_output_path                                       *)

HadoopOutputDirName == <<"hadoop_output">>

\* a mutant: the environment override is looked at before the explicit option
gen_data_output_path_EnvFirst(output_data_dir, env_dir, output, name) ==
    LET suffix_path == IF name # <<>> THEN name ELSE PathBasename(output)
        datapath == IF env_dir # <<>> THEN env_dir
                    ELSE IF output_data_dir # <<>> THEN output_data_dir
                    ELSE PathJoin(PathDirname(output), HadoopOutputDirName)
    IN PathJoin(datapath, suffix_path)

gen_data_output_path(output_data_dir, env_dir, output, name) ==
    LET suffix_path == IF name # <<>> THEN name ELSE PathBasename(output)
        datapath == IF output_data_dir # <<>> THEN output_data_dir
                    ELSE IF env_dir # <<>> THEN env_dir
                    ELSE PathJoin(PathDirname(output), HadoopOutputDirName)
    IN PathJoin(datapath, suffix_path)

\* The values the inputs of gen_data_output_path are drawn from.
DataDirs == { <<>>, <<"/", "x">>, <<"/", "x", "/">>, <<"/", "d">>, <<"x">> }
EnvDirs == { <<>>, <<"/", "y">>, <<"/", "d">>, <<"/", "y", "/">> }
OutputPaths == { <<"/", "d", "/", "o">>, <<"o">>, <<"/", "o">>,
                 <<"/", "d", "/">>, <<"d", "/", "o">> }
Names == { <<>>, <<"n">>, <<"/", "n">> }

InitPath ==
    /\ IdleRunner
    /\ IdleUri
    /\ IdleMk
    /\ IdleRun
    /\ IdleConf
    /\ opt_output_data_dir \in DataDirs
    /\ env_data_dir \in EnvDirs
    /\ opt_output \in OutputPaths
    /\ arg_name \in Names
    /\ gen_ret = None

GenDataOutputPath ==
    /\ gen_ret = None
    /\ gen_ret' = gen_data_output_path(opt_output_data_dir, env_data_dir,
                                       opt_output, arg_name)
    /\ UNCHANGED <<opt_output_data_dir, env_data_dir, opt_output, arg_name>>
    /\ UNCHANGED <<varsRunner, varsCall, varsUri, varsMk, varsConf, varsRun>>

NextPath == GenDataOutputPath

SpecPath == InitPath /\ [][NextPath]_vars

----------------------------------------------------------------------------
(* The Uri functions of make_pathset, called one at a time.                *)

UriConstruct(scheme, netloc, path) ==
    /\ cur' = Uri(scheme, netloc, path)
    /\ u_call' = UriCall("Uri", "none", <<>>, MkUri(scheme, netloc, path), FALSE, <<>>)
    /\ u_out' = RaiseList("none")

ResolveDatapath(mode, datapath, default_fs) ==
    /\ cur' = resolve_datapath(mode, datapath, default_fs)
    /\ u_call' = UriCall("resolve_datapath", mode, datapath, NoUri, FALSE, <<>>)
    /\ u_out' = RaiseList("none")

\* expand_paths on the Uri that resolve_datapath returned
ExpandPaths(exists, ls) ==
    /\ u_call.op = "resolve_datapath"
    /\ cur.kind = "ok"
    /\ u_out' = expand_paths(cur.uri, exists, ls)
    /\ u_call' = UriCall("expand_paths", u_call.mode, u_call.datapath, NoUri, exists, ls)
    /\ UNCHANGED cur

\* The values the inputs are drawn from.
MaxLines == 3

Schemes == { <<>>, FileScheme, <<"hdfs">> }
Netlocs == { <<>>, <<"nn">> }
UriPaths == { <<>>, <<"/", "a">>, <<"a">> }
Modes == { "default", "local" }
DefaultFss == { <<"hdfs", ":", "/", "/", "nn">>, <<"file", ":">> }
DataPaths == { <<"/", "a", "/", "b">>,
               <<"a">>,
               <<"file", ":", "/", "/", "/", "a", "/", "b">>,
               <<"hdfs", ":", "/", "/", "nn", "/", "a", "/", "*">>,
               <<"hdfs", ":", "/", "/", "nn">>,
               <<"/", "a", "/", "*">> }

\* lines of the listing: the summary line, an entry, an entry printed as a
\* full URI, an entry whose name holds a blank
LsHeader == <<"Found", " ", "n", " ", "items">>
LsLines == { LsHeader,
             <<"-rw", " ", "/", "a", "/", "b">>,
             <<"-rw", " ", "hdfs", ":", "/", "/", "nn", "/", "a", "/", "c">>,
             <<"-rw", " ", "/", "a", "/", "my", " ", "f">> }

RECURSIVE JoinLines(_)
JoinLines(lines) ==
    IF lines = <<>> THEN <<>> ELSE Head(lines) \o <<"\n">> \o JoinLines(Tail(lines))

LsAnswers == { LsFailed } \cup { JoinLines(ls) : ls \in SeqsUpTo(LsLines, MaxLines) }

InitUri ==
    /\ IdlePath
    /\ IdleRunner
    /\ IdleUri
    /\ IdleMk
    /\ IdleRun
    /\ IdleConf

UriNew ==
    /\ \E scheme \in Schemes, netloc \in Netlocs, path \in UriPaths :
          UriConstruct(scheme, netloc, path)
    /\ UNCHANGED <<varsPath, varsRunner, varsCall, varsMk, varsConf, varsRun>>

Resolve ==
    /\ \E mode \in Modes, datapath \in DataPaths, default_fs \in DefaultFss :
          ResolveDatapath(mode, datapath, default_fs)
    /\ UNCHANGED <<varsPath, varsRunner, varsCall, varsMk, varsConf, varsRun>>

Expand ==
    /\ \E exists \in BOOLEAN, ls \in LsAnswers : ExpandPaths(exists, ls)
    /\ UNCHANGED <<varsPath, varsRunner, varsCall, varsMk, varsConf, varsRun>>

NextUri == UriNew \/ Resolve \/ Expand

SpecUri == InitUri /\ [][NextUri]_vars

----------------------------------------------------------------------------
(* make_pathset.main: test_hadoop, then do_work.  A step is one call that  *)
(* can fail: the environment test, the resolution of one path, the         *)
(* expansion of one Uri, the opening of the output file, its writing.  An  *)
(* uncaught exception ends the process with status 1.                      *)

RECURSIVE Flatten(_)
Flatten(lists) ==
    IF lists = <<>> THEN <<>> ELSE Head(lists) \o Flatten(Tail(lists))

MkExit(status) ==
    /\ mk_pc' = "exited"
    /\ mk_exit' = status

\* test_hadoop(), given what the hadoop command does: it succeeds, it ends
\* with a non-zero status (CalledProcessError), or it cannot be started
\* (OSError, which test_hadoop does not catch)
test_hadoop(outcome) ==
    /\ mk_pc = "test_hadoop"
    /\ mk_env' = IF outcome = "ok" THEN "ok" ELSE "failed"
    /\ IF outcome = "ok"
       THEN /\ mk_pc' = IF mk_paths = <<>> THEN "open" ELSE "resolve"
            /\ UNCHANGED mk_exit
       ELSE IF outcome = "CalledProcessError" THEN MkExit(2)
       ELSE MkExit(1)
    /\ UNCHANGED <<mk_mode, mk_paths, mk_uris, mk_results, mk_file, mk_file0,
                   mk_ls_failed>>

\* do_work, line 136: resolve_datapath on the next path
do_work_resolve(default_fs) ==
    /\ mk_pc = "resolve"
    /\ LET r == resolve_datapath(mk_mode, mk_paths[Len(mk_uris) + 1], default_fs)
       IN IF r.kind = "ok"
          THEN /\ mk_uris' = Append(mk_uris, r.uri)
               /\ mk_pc' = IF Len(mk_uris) + 1 = Len(mk_paths) THEN "expand"
                           ELSE "resolve"
               /\ UNCHANGED mk_exit
          ELSE /\ MkExit(1)
               /\ UNCHANGED mk_uris
    /\ UNCHANGED <<mk_mode, mk_paths, mk_results, mk_file, mk_file0, mk_env,
                   mk_ls_failed>>

\* a mutant: a Uri whose listing fails is skipped
do_work_expand_SkipFailed(exists, ls) ==
    /\ mk_pc = "expand"
    /\ mk_ls_failed' = (mk_ls_failed \/ (~exists /\ ls = LsFailed))
    /\ LET r == expand_paths(mk_uris[Len(mk_results) + 1], exists, ls)
       IN IF r.kind \in {"ok", "SystemExit1"}
          THEN /\ mk_results' = Append(mk_results, r.urls)
               /\ mk_pc' = IF Len(mk_results) + 1 = Len(mk_uris) THEN "open"
                           ELSE "expand"
               /\ UNCHANGED mk_exit
          ELSE /\ MkExit(1)
               /\ UNCHANGED mk_results
    /\ UNCHANGED <<mk_mode, mk_paths, mk_uris, mk_file, mk_file0, mk_env>>

\* do_work, line 137: expand_paths on the next Uri; sys.exit(1) when its
\* listing fails
do_work_expand(exists, ls) ==
    /\ mk_pc = "expand"
    /\ mk_ls_failed' = (mk_ls_failed \/ (~exists /\ ls = LsFailed))
    /\ LET r == expand_paths(mk_uris[Len(mk_results) + 1], exists, ls)
       IN IF r.kind = "ok"
          THEN /\ mk_results' = Append(mk_results, r.urls)
               /\ mk_pc' = IF Len(mk_results) + 1 = Len(mk_uris) THEN "open"
                           ELSE "expand"
               /\ UNCHANGED mk_exit
          ELSE /\ MkExit(1)
               /\ UNCHANGED mk_results
    /\ UNCHANGED <<mk_mode, mk_paths, mk_uris, mk_file, mk_file0, mk_env>>

\* do_work, line 140: open(output_path, 'w') creates or truncates the file,
\* or raises IOError
do_work_open(opened) ==
    /\ mk_pc = "open"
    /\ IF opened
       THEN /\ mk_file' = File("present", <<>>)
            /\ mk_pc' = "write"
            /\ UNCHANGED mk_exit
       ELSE /\ MkExit(1)
            /\ UNCHANGED mk_file
    /\ UNCHANGED <<mk_mode, mk_paths, mk_uris, mk_results, mk_file0, mk_env,
                   mk_ls_failed>>

\* do_work, lines 138-141: the pathset of all the expansions is written
do_work_write ==
    /\ mk_pc = "write"
    /\ mk_file' = File("present", Flatten(mk_results))
    /\ MkExit(0)
    /\ UNCHANGED <<mk_mode, mk_paths, mk_uris, mk_results, mk_file0, mk_env,
                   mk_ls_failed>>

\* The values the inputs are drawn from.
MkDataPaths == { <<"/", "a", "/", "b">>,
                 <<"hdfs", ":", "/", "/", "nn", "/", "a", "/", "*">>,
                 <<"file", ":", "/", "/", "nn", "/", "a">> }
MkLsAnswers == { LsFailed,
                 JoinLines(<< LsHeader, <<"-rw", " ", "/", "a", "/", "b">>,
                              <<"-rw", " ", "/", "a", "/", "c">> >>),
                 JoinLines(<< <<"-rw", " ", "/", "a", "/", "b">> >>) }
MkFiles == { File("absent", <<>>), File("present", << <<"/", "old">> >>) }

InitMk ==
    /\ IdlePath
    /\ IdleRunner
    /\ IdleUri
    /\ IdleConf
    /\ IdleRun
    /\ mk_pc = "test_hadoop"
    /\ mk_mode \in Modes
    /\ mk_paths \in SeqsUpTo(MkDataPaths, MaxPaths)
    /\ mk_uris = <<>>
    /\ mk_results = <<>>
    /\ mk_file0 \in MkFiles
    /\ mk_file = mk_file0
    /\ mk_exit = -1
    /\ mk_env = "untested"
    /\ mk_ls_failed = FALSE

MkTestHadoop ==
    /\ \E outcome \in {"ok", "CalledProcessError", "OSError"} : test_hadoop(outcome)
    /\ UNCHANGED <<varsPath, varsRunner, varsCall, varsUri, varsConf, varsRun>>

MkResolve ==
    /\ \E default_fs \in DefaultFss : do_work_resolve(default_fs)
    /\ UNCHANGED <<varsPath, varsRunner, varsCall, varsUri, varsConf, varsRun>>

MkExpand ==
    /\ \E exists \in BOOLEAN, ls \in MkLsAnswers : do_work_expand(exists, ls)
    /\ UNCHANGED <<varsPath, varsRunner, varsCall, varsUri, varsConf, varsRun>>

MkOpen ==
    /\ \E opened \in BOOLEAN : do_work_open(opened)
    /\ UNCHANGED <<varsPath, varsRunner, varsCall, varsUri, varsConf, varsRun>>

MkWrite ==
    /\ do_work_write
    /\ UNCHANGED <<varsPath, varsRunner, varsCall, varsUri, varsConf, varsRun>>

NextMk == MkTestHadoop \/ MkResolve \/ MkExpand \/ MkOpen \/ MkWrite

SpecMk == InitMk /\ [][NextMk]_vars

----------------------------------------------------------------------------
(* HadoopGalaxy._set_hadoop_conf and HadoopGalaxy._configure_for_job       *)

EnvConfPath == "HADOOP_GALAXY_CONF"

\* self._cmd_env after _set_hadoop_conf
set_hadoop_conf(the_conf, env) ==
    [k \in EnvKeys |->
        IF k = "HADOOP_HOME" /\ the_conf.HADOOP_HOME # Absent
        THEN the_conf.HADOOP_HOME
        ELSE IF k = "HADOOP_CONF_DIR" /\ the_conf.HADOOP_CONF_DIR # Absent
        THEN the_conf.HADOOP_CONF_DIR
        ELSE env[k]]

\* self._cmd_env after the tool_env loop
override_tool_env(tool_env, env) ==
    [k \in EnvKeys |-> IF tool_env[k] # Absent THEN tool_env[k] ELSE env[k]]

ConfResult(kind, the_conf, env) == [kind |-> kind, conf |-> the_conf, cmd_env |-> env]

\* a mutant: the HADOOP_HOME and HADOOP_CONF_DIR keys are copied after the
\* tool_env loop
configure_for_job_HadoopLast(environ, conf_opt, files, old_conf) ==
    LET conf_file == IF conf_opt # "" THEN conf_opt
                     ELSE IF environ[EnvConfPath] # Absent THEN environ[EnvConfPath]
                     ELSE ""
    IN IF conf_file = "" THEN ConfResult("ok", EmptyConf, environ)
       ELSE IF files[conf_file].read = "IOError"
            THEN ConfResult("SystemExit1", old_conf, environ)
       ELSE IF files[conf_file].read = "YAMLError"
            THEN ConfResult("YAMLError", old_conf, environ)
       ELSE IF files[conf_file].read = "NotADict"
            THEN ConfResult("AttributeError", NoneConf, environ)
       ELSE ConfResult("ok", files[conf_file].dict,
                       set_hadoop_conf(files[conf_file].dict,
                           override_tool_env(files[conf_file].dict.tool_env, environ)))

\* _configure_for_job: how it ends, and self.conf and self._cmd_env then.
\* A file is read when options.conf or HADOOP_GALAXY_CONF names one: reading
\* fails (IOError, sys.exit(1)), parsing fails (YAMLError), the document is
\* not a mapping (has_key fails), or a dict is loaded.
configure_for_job(environ, conf_opt, files, old_conf) ==
    LET conf_file == IF conf_opt # "" THEN conf_opt
                     ELSE IF environ[EnvConfPath] # Absent THEN environ[EnvConfPath]
                     ELSE ""
    IN IF conf_file = "" THEN ConfResult("ok", EmptyConf, environ)
       ELSE IF files[conf_file].read = "IOError"
            THEN ConfResult("SystemExit1", old_conf, environ)
       ELSE IF files[conf_file].read = "YAMLError"
            THEN ConfResult("YAMLError", old_conf, environ)
       ELSE IF files[conf_file].read = "NotADict"
            THEN ConfResult("AttributeError", NoneConf, environ)
       ELSE ConfResult("ok", files[conf_file].dict,
                       override_tool_env(files[conf_file].dict.tool_env,
                           set_hadoop_conf(files[conf_file].dict, environ)))

\* the runner's options after _configure_for_job: parse_args is called when
\* options.remaining_args is not empty and the configuration was loaded
configured_opts(kind, remaining_args, opts) ==
    IF kind = "ok" /\ remaining_args # <<>> THEN remaining_args ELSE opts

ConfigureForJob ==
    /\ conf_ret = "none"
    /\ LET r == configure_for_job(os_environ, opt_conf, conf_files, conf)
       IN /\ conf_ret' = r.kind
          /\ conf' = r.conf
          /\ cmd_env' = r.cmd_env
          /\ generic_opts' = configured_opts(r.kind, opt_remaining_args, generic_opts)
    /\ UNCHANGED <<os_environ, opt_conf, opt_remaining_args, conf_files>>
    /\ UNCHANGED <<executable, input_params, output_str>>

\* The values the inputs are drawn from.
Environs ==
    { [k \in EnvKeys |->
          IF k = "PATH" THEN "env"
          ELSE IF k = EnvConfPath THEN (IF "g" \in on THEN "g" ELSE Absent)
          ELSE IF k \in on THEN "env" ELSE Absent] :
      on \in SUBSET {"HADOOP_HOME", "HADOOP_CONF_DIR", "JAVA_HOME", "g"} }
ToolEnvs ==
    { EmptyDict,
      [k \in EnvKeys |-> IF k = "HADOOP_HOME" THEN "tool" ELSE Absent],
      [k \in EnvKeys |-> IF k \in {"PATH", "JAVA_HOME"} THEN "tool" ELSE Absent] }
Confs ==
    { Conf(home, conf_dir, tool_env) :
        home \in {Absent, "conf"}, conf_dir \in {Absent, "conf"}, tool_env \in ToolEnvs }
FileContents ==
    { FileContent(read, EmptyConf) : read \in {"IOError", "YAMLError", "NotADict"} }
    \cup { FileContent("ok", d) : d \in Confs }

InitConf ==
    /\ IdlePath
    /\ IdleUri
    /\ IdleMk
    /\ IdleRun
    /\ executable = <<"tool">>
    /\ input_params = NoneList
    /\ output_str = None
    /\ generic_opts = <<>>
    /\ call = NoCall
    /\ ret = Ok(<<>>)
    /\ os_environ \in Environs
    /\ opt_conf \in {"", "f"}
    /\ opt_remaining_args \in { <<>>, << <<"-x">> >> }
    /\ conf_files \in [ConfPaths -> FileContents]
    /\ conf = EmptyConf
    /\ cmd_env = EmptyDict
    /\ conf_ret = "none"

Configure ==
    /\ ConfigureForJob
    /\ UNCHANGED <<varsPath, varsCall, varsUri, varsMk, varsRun>>

NextConf == Configure

SpecConf == InitConf /\ [][NextConf]_vars

----------------------------------------------------------------------------
(* HadoopToolRunner.execute and HadoopGalaxy.run.  A step is one call that *)
(* can fail or that touches the file system.                               *)

\* FilePathset(path): the pathset of one path
FilePathset(path) == <<path>>

\* the directories of PATH in the command environment
PathDirs(env) ==
    IF env["PATH"] = "env" THEN << <<"/", "bin">> >>
    ELSE IF env["PATH"] = "tool" THEN << <<"/", "usr">> >>
    ELSE <<>>

\* whether the path p, given to pydoop.hdfs, names the local file that
\* local_path names: p carries the file scheme, or carries no scheme while
\* the default file system is the local one
SameObject(p, local_path, the_default_fs) ==
    LET parsed == urlparse(p)
        on_local == \/ parsed.scheme = FileScheme
                    \/ parsed.scheme = <<>> /\ the_default_fs = <<"file", ":">>
    IN on_local /\ parsed.netloc = <<>> /\ abspath(parsed.path) = abspath(local_path)

RunFail(step) ==
    /\ run_pc' = "failed"
    /\ run_failed_at' = step

RunGoto(step) ==
    /\ run_pc' = step
    /\ UNCHANGED run_failed_at

\* run, line 330
run_configure ==
    /\ run_pc = "configure"
    /\ ConfigureForJob
    /\ IF conf_ret' = "ok" THEN RunGoto("load_input") ELSE RunFail("configure")
    /\ UNCHANGED <<call, ret>>
    /\ UNCHANGED <<input_file, input_pathset, output_pathset, cmd, out_file,
                   out_file0, data_out, parent_dir, fs_default, exec_events,
                   rmr_outcome>>
    /\ UNCHANGED varsPath

\* run, lines 333-335: the input pathset is read from options.input
run_load_input ==
    /\ run_pc = "load_input"
    /\ IF input_file.read = "ok"
       THEN /\ input_pathset' = input_file.dict
            /\ RunGoto("gen_output")
       ELSE /\ RunFail("load_input")
            /\ UNCHANGED input_pathset
    /\ UNCHANGED <<input_file, output_pathset, cmd, out_file, out_file0,
                   data_out, parent_dir, fs_default, exec_events, rmr_outcome>>
    /\ UNCHANGED <<varsPath, varsRunner, varsCall, varsConf>>

\* run, line 338
run_gen_output ==
    /\ run_pc = "gen_output"
    /\ gen_ret' = gen_data_output_path(opt_output_data_dir, env_data_dir,
                                       opt_output, <<>>)
    /\ output_pathset' = FilePathset(gen_ret')
    /\ RunGoto("set_input")
    /\ UNCHANGED <<opt_output_data_dir, env_data_dir, opt_output, arg_name>>
    /\ UNCHANGED <<input_file, input_pathset, cmd, out_file, out_file0,
                   data_out, parent_dir, fs_default, exec_events, rmr_outcome>>
    /\ UNCHANGED <<varsRunner, varsCall, varsConf>>

\* run, line 341
run_set_input ==
    /\ run_pc = "set_input"
    /\ set_input(input_pathset)
    /\ RunGoto("set_output")
    /\ UNCHANGED <<input_file, input_pathset, output_pathset, cmd, out_file,
                   out_file0, data_out, parent_dir, fs_default, exec_events,
                   rmr_outcome>>
    /\ UNCHANGED <<varsPath, varsConf>>

\* run, line 342
run_set_output ==
    /\ run_pc = "set_output"
    /\ set_output(output_pathset)
    /\ IF ret'.kind = "ok" THEN RunGoto("command") ELSE RunFail("set_output")
    /\ UNCHANGED <<input_file, input_pathset, output_pathset, cmd, out_file,
                   out_file0, data_out, parent_dir, fs_default, exec_events,
                   rmr_outcome>>
    /\ UNCHANGED <<varsPath, varsConf>>

\* execute, line 165
execute_command ==
    /\ run_pc = "command"
    /\ Command(PathDirs(cmd_env))
    /\ IF ret'.kind = "ok"
       THEN /\ cmd' = ret'.val
            /\ RunGoto("rmr")
       ELSE /\ RunFail("command")
            /\ UNCHANGED cmd
    /\ UNCHANGED <<input_file, input_pathset, output_pathset, out_file,
                   out_file0, data_out, parent_dir, fs_default, exec_events,
                   rmr_outcome>>
    /\ UNCHANGED <<varsPath, varsConf>>

\* whether the output data path names the file that options.output names;
\* out_file and data_out are then one object
OutputIsOutFile == SameObject(output_str, opt_output, fs_default)

\* whether an object is at the output data path
OutputExists == data_out = "present"

\* what the tool leaves at the output data path
ToolData == << <<"tool", "data">> >>

\* a mutant: the IOError of the removal is not caught
execute_rmr_Uncaught(io_error) ==
    /\ run_pc = "rmr"
    /\ exec_events' = Append(exec_events, "rmr")
    /\ IF io_error \/ ~OutputExists
       THEN /\ rmr_outcome' = IF io_error THEN "io_error" ELSE "not_found"
            /\ RunFail("rmr")
            /\ UNCHANGED <<out_file, data_out>>
       ELSE /\ rmr_outcome' = "removed"
            /\ RunGoto("parent")
            /\ data_out' = "absent"
            /\ IF OutputIsOutFile
               THEN out_file' = File("absent", <<>>)
               ELSE UNCHANGED out_file
    /\ UNCHANGED <<input_file, input_pathset, output_pathset, cmd, out_file0,
                   parent_dir, fs_default>>
    /\ UNCHANGED <<varsPath, varsRunner, varsCall, varsConf>>

\* execute, lines 166-170: phdfs.rmr(self.output_str) removes what is at the
\* output path; it raises IOError when nothing is there or when the removal
\* fails (io_error), and the IOError is logged
execute_rmr(io_error) ==
    /\ run_pc = "rmr"
    /\ exec_events' = Append(exec_events, "rmr")
    /\ RunGoto("parent")
    /\ IF io_error \/ ~OutputExists
       THEN /\ rmr_outcome' = IF io_error THEN "io_error" ELSE "not_found"
            /\ UNCHANGED <<out_file, data_out>>
       ELSE /\ rmr_outcome' = "removed"
            /\ data_out' = "absent"
            /\ IF OutputIsOutFile
               THEN out_file' = File("absent", <<>>)
               ELSE UNCHANGED out_file
    /\ UNCHANGED <<input_file, input_pathset, output_pathset, cmd, out_file0,
                   parent_dir, fs_default>>
    /\ UNCHANGED <<varsPath, varsRunner, varsCall, varsConf>>

\* execute, lines 172-174: the parent directory is looked for and, when it is
\* missing, made; phdfs.mkdir raises IOError when it fails
execute_parent(mkdir_ok) ==
    /\ run_pc = "parent"
    /\ IF parent_dir = "present"
       THEN /\ exec_events' = Append(exec_events, "exists")
            /\ RunGoto("launch")
            /\ UNCHANGED parent_dir
       ELSE /\ exec_events' = exec_events \o <<"exists", "mkdir">>
            /\ IF mkdir_ok
               THEN /\ parent_dir' = "present"
                    /\ RunGoto("launch")
               ELSE /\ RunFail("parent")
                    /\ UNCHANGED parent_dir
    /\ UNCHANGED <<input_file, input_pathset, output_pathset, cmd, out_file,
                   out_file0, data_out, fs_default, rmr_outcome>>
    /\ UNCHANGED <<varsPath, varsRunner, varsCall, varsConf>>

\* execute, line 178, and run, lines 347-358: subprocess.check_call; the
\* tool cannot be started (OSError), ends with a non-zero status or by a
\* signal (CalledProcessError), or ends with status 0.  A tool that ends
\* with status 0 has written its output at the output data path; one that
\* was started and failed may have (wrote).
execute_launch(outcome, wrote) ==
    /\ run_pc = "launch"
    /\ exec_events' = Append(exec_events, "launch")
    /\ IF outcome = "ok" THEN RunGoto("write_output") ELSE RunFail("launch")
    /\ IF outcome = "ok" \/ (outcome # "OSError" /\ wrote)
       THEN /\ data_out' = "present"
            /\ IF OutputIsOutFile
               THEN out_file' = File("present", ToolData)
               ELSE UNCHANGED out_file
       ELSE UNCHANGED <<data_out, out_file>>
    /\ UNCHANGED <<input_file, input_pathset, output_pathset, cmd, out_file0,
                   parent_dir, fs_default, rmr_outcome>>
    /\ UNCHANGED <<varsPath, varsRunner, varsCall, varsConf>>

\* run, lines 345-346: open(options.output, 'w') and the writing of the
\* output pathset; open raises IOError when the file cannot be opened, as
\* when the tool's output directory is at that path
run_write_output(opened) ==
    /\ run_pc = "write_output"
    /\ opened => ~OutputIsOutFile
    /\ IF opened
       THEN /\ out_file' = File("present", output_pathset)
            /\ RunGoto("done")
       ELSE /\ RunFail("write_output")
            /\ UNCHANGED out_file
    /\ UNCHANGED <<input_file, input_pathset, output_pathset, cmd, out_file0,
                   data_out, parent_dir, fs_default, exec_events, rmr_outcome>>
    /\ UNCHANGED <<varsPath, varsRunner, varsCall, varsConf>>

\* The values the inputs are drawn from.
RunDataDirs == { <<>>, <<"/", "x">>, <<"/", "d">> }
RunEnvDirs == { <<>>, <<"/", "d">> }
RunOutput == <<"/", "d", "/", "o">>
RunEnvirons ==
    { [k \in EnvKeys |-> IF k = "PATH" THEN "env"
                         ELSE IF k = EnvConfPath THEN g
                         ELSE Absent] : g \in {Absent, "g"} }
RunConfFiles ==
    { [p \in ConfPaths |-> c] :
        c \in { FileContent("IOError", EmptyConf),
                FileContent("ok", Conf("conf", Absent, EmptyDict)),
                FileContent("ok", Conf(Absent, Absent,
                    [k \in EnvKeys |-> IF k = "PATH" THEN "tool" ELSE Absent])) } }
InputFiles ==
    { FileContent("IOError", <<>>) }
    \cup { FileContent("ok", pset) : pset \in Pathsets }

InitRun ==
    /\ IdleUri
    /\ IdleMk
    /\ opt_output_data_dir \in RunDataDirs
    /\ env_data_dir \in RunEnvDirs
    /\ opt_output = RunOutput
    /\ arg_name = <<>>
    /\ gen_ret = None
    /\ executable \in { None, <<"tool">> }
    /\ input_params = NoneList
    /\ output_str = None
    /\ generic_opts = <<>>
    /\ call = NoCall
    /\ ret = Ok(<<>>)
    /\ os_environ \in RunEnvirons
    /\ opt_conf = ""
    /\ opt_remaining_args \in { <<>>, << <<"-x">> >> }
    /\ conf_files \in RunConfFiles
    /\ conf = EmptyConf
    /\ cmd_env = EmptyDict
    /\ conf_ret = "none"
    /\ run_pc = "configure"
    /\ run_failed_at = "none"
    /\ input_file \in InputFiles
    /\ input_pathset = <<>>
    /\ output_pathset = <<>>
    /\ cmd = <<>>
    /\ out_file0 \in MkFiles
    /\ out_file = out_file0
    /\ data_out \in {"absent", "present"}
    /\ parent_dir \in {"absent", "present"}
    /\ fs_default \in DefaultFss
    /\ exec_events = <<>>
    /\ rmr_outcome = "none"
    \* when the output data path will be the file options.output names, the
    \* two are one object, in a directory that exists if the file does
    /\ SameObject(gen_data_output_path(opt_output_data_dir, env_data_dir,
                                       opt_output, <<>>),
                  opt_output, fs_default) =>
          /\ data_out = out_file0.state
          /\ out_file0.state = "present" => parent_dir = "present"

RunConfigure == run_configure /\ UNCHANGED <<varsUri, varsMk>>

RunLoadInput == run_load_input /\ UNCHANGED <<varsUri, varsMk>>

RunGenOutput == run_gen_output /\ UNCHANGED <<varsUri, varsMk>>

RunSetInput == run_set_input /\ UNCHANGED <<varsUri, varsMk>>

RunSetOutput == run_set_output /\ UNCHANGED <<varsUri, varsMk>>

ExecuteCommand == execute_command /\ UNCHANGED <<varsUri, varsMk>>

ExecuteRmr ==
    /\ \E io_error \in BOOLEAN : execute_rmr(io_error)
    /\ UNCHANGED <<varsUri, varsMk>>

ExecuteParent ==
    /\ \E mkdir_ok \in BOOLEAN : execute_parent(mkdir_ok)
    /\ UNCHANGED <<varsUri, varsMk>>

ExecuteLaunch ==
    /\ \E outcome \in {"ok", "OSError", "exit_code", "signal"}, wrote \in BOOLEAN :
          execute_launch(outcome, wrote)
    /\ UNCHANGED <<varsUri, varsMk>>

RunWriteOutput ==
    /\ \E opened \in BOOLEAN : run_write_output(opened)
    /\ UNCHANGED <<varsUri, varsMk>>

NextRun ==
    \/ RunConfigure \/ RunLoadInput \/ RunGenOutput \/ RunSetInput
    \/ RunSetOutput \/ ExecuteCommand \/ ExecuteRmr \/ ExecuteParent
    \/ ExecuteLaunch \/ RunWriteOutput

SpecRun == InitRun /\ [][NextRun]_vars

----------------------------------------------------------------------------
(* C1 *)

\* C1: in every run in which configuration loading, input loading,
\* set_input, set_output, command building or execute fails, the file that
\* options.output names is as it was at the start; it is changed only after
\* execute has returned successfully.
C1_Atomicity ==
    /\ run_pc = "failed" /\ run_failed_at # "write_output" => out_file = out_file0
    /\ out_file # out_file0 => run_pc \in {"done"}

----------------------------------------------------------------------------
(* C10 *)

----------------------------------------------------------------------------
(* C2 *)

\* C2: set_output on a pathset with 0 or with 2 or more entries fails and
\* leaves the stored output path unchanged; on a pathset with exactly 1 entry
\* it succeeds and stores that entry as the output path.
C2_SetOutputCardinality ==
    [][ call'.op = "set_output" =>
            IF Len(call'.arg) = 1
            THEN ret'.kind = "ok" /\ output_str' = call'.arg[1]
            ELSE ret'.kind # "ok" /\ output_str' = output_str ]_vars

\* a two-entry pathset was refused while an output path was already stored
C2_Witness ==
    /\ call.op = "set_output"
    /\ Len(call.arg) = 2
    /\ ret.kind = "RuntimeError"
    /\ output_str = <<"/", "a">>

----------------------------------------------------------------------------
(* C3 *)

\* the base and the suffix the claim names
C3_Base ==
    IF opt_output_data_dir # <<>> THEN opt_output_data_dir
    ELSE IF env_data_dir # <<>> THEN env_data_dir
    ELSE PathDirname(opt_output) \o <<"/">> \o HadoopOutputDirName

C3_Suffix == IF arg_name # <<>> THEN arg_name ELSE PathBasename(opt_output)

\* C3 as stated: for every combination of option, environment override,
\* output-pathset path and name, the result is base ++ "/" ++ suffix.
C3_Original ==
    gen_ret # None => gen_ret = C3_Base \o <<"/">> \o C3_Suffix

\* the base of the amended claim: the default is joined the way os.path.join
\* joins, so an output path without a directory gives the relative
\* "hadoop_output"
C3_JoinedBase ==
    IF opt_output_data_dir # <<>> THEN opt_output_data_dir
    ELSE IF env_data_dir # <<>> THEN env_data_dir
    ELSE IF PathDirname(opt_output) = <<>> THEN HadoopOutputDirName
    ELSE IF EndsWithSlash(PathDirname(opt_output))
         THEN PathDirname(opt_output) \o HadoopOutputDirName
    ELSE PathDirname(opt_output) \o <<"/">> \o HadoopOutputDirName

\* C3, amended: the result is the suffix alone when the suffix is absolute,
\* base ++ suffix when the base already ends with "/", and
\* base ++ "/" ++ suffix otherwise; the base is chosen option first, then
\* environment, then the default.
C3_Amended ==
    gen_ret # None =>
        gen_ret = IF StartsWithSlash(C3_Suffix) THEN C3_Suffix
                  ELSE IF EndsWithSlash(C3_JoinedBase)
                       THEN C3_JoinedBase \o C3_Suffix
                  ELSE C3_JoinedBase \o <<"/">> \o C3_Suffix

\* the spec's own example: option "/x", override "/y", output "/d/o"
C3_Witness ==
    /\ opt_output_data_dir = <<"/", "x">>
    /\ env_data_dir = <<"/", "y">>
    /\ opt_output = <<"/", "d", "/", "o">>
    /\ arg_name = <<>>
    /\ gen_ret = <<"/", "x", "/", "o">>

----------------------------------------------------------------------------
(* C4 *)

C4_Unset == executable = None \/ input_params = NoneList \/ output_str = None

\* C4 as stated: command fails whenever the executable, the input or the
\* output is unset, and otherwise returns
\* [resolved executable] ++ options ++ input paths ++ [output path].
C4_Original ==
    call.op = "command" =>
        IF C4_Unset THEN ret.kind # "ok"
        ELSE /\ ret.kind = "ok"
             /\ Len(ret.val) = 1 + Len(generic_opts) + Len(input_params) + 1
             /\ SubSeq(ret.val, 2, Len(ret.val)) =
                    generic_opts \o input_params \o <<output_str>>

\* whether the executable resolves: it is absolute, or a directory of PATH
\* holds it
C4_Resolves ==
    \/ StartsWithSlash(executable)
    \/ \E i \in 1..Len(call.arg) :
          call.arg[i] \o <<"/">> \o executable \in Installed

\* C4, amended: command fails whenever the executable, the input or the
\* output is unset, and fails when the executable cannot be resolved;
\* otherwise it returns
\* [resolved executable] ++ options ++ input paths ++ [output path], the
\* input paths in pathset order and as the literal strings of the pathset.
C4_Amended ==
    call.op = "command" =>
        IF C4_Unset \/ ~C4_Resolves THEN ret.kind # "ok"
        ELSE /\ ret.kind = "ok"
             /\ Len(ret.val) = 1 + Len(generic_opts) + Len(input_params) + 1
             /\ ret.val[1] = IF StartsWithSlash(executable) THEN executable
                             ELSE <<"/", "bin", "/">> \o executable
             /\ SubSeq(ret.val, 2, Len(ret.val)) =
                    generic_opts \o input_params \o <<output_str>>

\* a command with options, two inputs (one a wildcard) and an output
C4_Witness ==
    /\ call.op = "command"
    /\ ret = Ok(<< <<"/", "bin", "/", "tool">>, <<"-x">>, <<"-y">>,
                   <<"/", "w", "*">>, <<"/", "a">>, <<"/", "a">> >>)

----------------------------------------------------------------------------
(* C5 *)

UriInvariants(x) ==
    /\ x.scheme = FileScheme => x.netloc = <<>> /\ StartsWithSlash(x.path)
    /\ x.netloc # <<>> => x.scheme # <<>>
    /\ x.path # <<>>

\* C5: every Uri that exists after construction, every Uri that
\* resolve_datapath returns and every Uri whose canonical string
\* expand_paths emits satisfies the UriRef invariants: the file scheme has no
\* host and an absolute path, a host has a scheme, the path is not empty.
C5_UriInvariants ==
    /\ cur.kind = "ok" => UriInvariants(cur.uri)
    /\ u_out.kind = "ok" =>
          \A i \in 1..Len(u_out.uris) : UriInvariants(u_out.uris[i])

----------------------------------------------------------------------------
(* C6 *)

\* C6: in local mode resolve_datapath rejects every raw path whose scheme is
\* neither "" nor "file"; for every other raw path with a non-empty path
\* component it returns scheme "file", no host and the absolute form of the
\* parsed path component.
C6_LocalMode ==
    (u_call.op = "resolve_datapath" /\ u_call.mode = "local") =>
        LET parsed == urlparse(u_call.datapath)
        IN IF parsed.scheme # <<>> /\ parsed.scheme # FileScheme
           THEN cur.kind # "ok"
           ELSE parsed.path # <<>> =>
                   cur = OkUri(MkUri(FileScheme, <<>>, abspath(parsed.path)))

----------------------------------------------------------------------------
(* C7 *)

C7_IsPathEntry(line) == line # <<>> /\ Head(line) # "Found"

C7_Token(line) == SubSeq(line, RFind(line, " ") + 1, Len(line))

\* the lines the claim keeps: all of them, but for a leading line that is
\* not a path entry
C7_Kept(lines) == IF C7_IsPathEntry(Head(lines)) THEN lines ELSE Tail(lines)

\* C7: when the URI names no existing object and the listing succeeds,
\* expand_paths returns, in listing order, one URI per kept line, built from
\* the line's trailing token with the original scheme and host; only a
\* leading line that is not a path entry is dropped.
C7_ListingExpansion ==
    (u_call.op = "expand_paths" /\ ~u_call.exists /\ u_call.ls # LsFailed) =>
        LET kept == C7_Kept(SplitLines(RStripNewline(u_call.ls)))
        IN /\ u_out.kind = "ok"
           /\ u_out.urls =
                [i \in 1..Len(kept) |->
                    geturl(MkUri(cur.uri.scheme, cur.uri.netloc,
                                 urlparse(C7_Token(kept[i])).path))]

----------------------------------------------------------------------------
(* C8 *)

\* C8: the output pathset file is opened for writing only after the
\* environment check has passed and every input path has been resolved and
\* expanded; when the environment check or the listing of a path fails the
\* process exits non-zero with the file as it was; a file that is written
\* holds all the expansions.
C8_OutputAfterAllExpansions ==
    /\ mk_file # mk_file0 =>
          /\ mk_env = "ok"
          /\ Len(mk_uris) = Len(mk_paths)
          /\ Len(mk_results) = Len(mk_paths)
          /\ ~mk_ls_failed
    /\ (mk_env = "failed" \/ mk_ls_failed) =>
          /\ mk_pc = "exited"
          /\ mk_exit # 0
          /\ mk_file = mk_file0
    /\ mk_exit = 0 =>
          /\ Len(mk_results) = Len(mk_paths)
          /\ mk_file = File("present", Flatten(mk_results))

\* the listing of the second path failed after the first was expanded, and
\* the file that existed is as it was
C8_Witness ==
    /\ mk_ls_failed
    /\ Len(mk_paths) = 2
    /\ Len(mk_results) = 1
    /\ mk_results[1] # <<>>
    /\ mk_pc = "exited"
    /\ mk_exit = 1
    /\ mk_file0.state = "present"
    /\ mk_file = mk_file0

----------------------------------------------------------------------------
(* C9 *)

----------------------------------------------------------------------------
(* C11 *)

\* C11: whatever options.output_data_dir, HADOOP_GALAXY_DATA_DIR and
\* options.output are, the path gen_data_output_path returns is not the path
\* options.output, nor another name of the same file, so that the removal
\* execute makes before the launch never deletes the file options.output
\* names.
C11_DataPathDistinct ==
    /\ gen_ret # None =>
          /\ gen_ret # opt_output
          /\ ~SameObject(gen_ret, opt_output, fs_default)
    /\ rmr_outcome = "removed" => out_file = out_file0

====
